---- MODULE Spec2Model ----
(***************************************************************************)
(* State-machine model of daily_commit_automation.py: one scheduled        *)
(* process invocation after another against one repository clone.  A file  *)
(* on disk is a sequence of tokens (text lines, line breaks, and the       *)
(* tokens of a serialized progress record), so that appending, parsing and *)
(* serializing are computed and can disagree.                              *)
(***************************************************************************)
EXTENDS Integers, Sequences, FiniteSets, TLC

VARIABLES
    repo,             \* state of REPO_PATH: "missing", "nogit" or "ok"
    FILES_TO_UPDATE,  \* configured list of target files
    ignored,          \* paths the working copy's ignore rules hide from git
    today,            \* calendar date of the clock
    runs,             \* number of process invocations started so far
    pc,               \* position of the current invocation
    disk,             \* working tree: file name -> [exists, data]
    pending,          \* paths that differ from the last local commit
    files_to_update,  \* selection of the current run
    i,                \* loop position in files_to_update
    updated_files,    \* files whose update succeeded in the current run
    trace,            \* VCS operations invoked in the current run, in order
    committed,        \* the current run created a local commit
    published,        \* the current run pushed its commit to the remote
    result,           \* value returned by run_daily_automation
    exitCode,         \* process exit status, -1 while running
    pulled,           \* outcome of the pull step: "none", "ok" or "failed"
    diskAtStart,      \* working tree when the current run started
    file_updated,     \* file name handed to get_random_commit_message
    template,         \* commit message template drawn, as tokens
    message,          \* commit message composed, as tokens
    fragment          \* line types of the markdown fragment generated

genVars == <<template, message, fragment>>

vars == <<repo, FILES_TO_UPDATE, ignored, today, runs, pc, disk, pending,
          files_to_update, i, updated_files, trace, committed, published,
          result, exitCode, pulled, diskAtStart, file_updated, genVars>>

----------------------------------------------------------------------------
(* Bounds of the model *)
MaxConfigLen == 2     \* longest configured file list of the repeated runs
MaxWideLen == 4       \* longest configured file list of the single run
MaxLines == 1         \* cap on the lines drawn for one fragment
MaxRuns == 2          \* process invocations
NumVals == 1          \* distinguishable random payloads of a record entry

(* Program constants *)
MAX_FILES_PER_DAY == 3
MIN_LINES_TO_ADD == 1
MAX_LINES_TO_ADD == 5

Min(a, b) == IF a < b THEN a ELSE b

(* File names a configuration is drawn from: the categories of the source's *)
(* list (markdown, JSON, plain text) and one name of no known suffix.       *)
Candidates == <<"progress.json", "daily_log.md", "CHANGELOG", "notes.txt", "README.md">>

Names == {Candidates[n] : n \in 1..Len(Candidates)}

\* the runs of consecutive candidates
Windows ==
    {SubSeq(Candidates, a, b) : a \in 1..Len(Candidates), b \in 0..Len(Candidates)}

Configs == {c \in Windows : Len(c) <= MaxConfigLen}

WideConfigs == {c \in Windows : Len(c) <= MaxWideLen}

suffix(f) ==
    CASE f \in {"daily_log.md", "README.md"} -> ".md"
      [] f = "progress.json" -> ".json"
      [] f = "notes.txt" -> ".txt"
      [] OTHER -> ""

----------------------------------------------------------------------------
(* File contents *)
NL == <<"nl", 0, 0>>
Line == <<"txt", 0, 0>>
Open == <<"{", 0, 0>>
Close == <<"}", 0, 0>>
Entry(d, v) == <<"entry", d, v>>
LastModified(d) == <<"last_modified", d, 0>>
Total(n) == <<"total_entries", n, 0>>

Absent == [exists |-> FALSE, data |-> <<>>]
File(s) == [exists |-> TRUE, data |-> s]

RECURSIVE Repeat(_, _)
Repeat(s, n) == IF n = 0 THEN <<>> ELSE s \o Repeat(s, n - 1)

RECURSIVE Join(_)
\* '\n'.join(tokens)
Join(s) == IF Len(s) = 0 THEN <<>>
           ELSE IF Len(s) = 1 THEN <<s[1]>>
           ELSE <<s[1], NL>> \o Join(Tail(s))

RECURSIVE Strip(_)
\* the tokens of a text with the white space between them dropped
Strip(s) == IF Len(s) = 0 THEN <<>>
            ELSE IF s[1] = NL THEN Strip(Tail(s))
            ELSE <<s[1]>> \o Strip(Tail(s))

IsPrefix(s, t) == Len(s) <= Len(t) /\ SubSeq(t, 1, Len(s)) = s

\* number of lines of a text: its line breaks, plus a last unterminated line
LineCount(s) ==
    Cardinality({n \in 1..Len(s) : s[n] = NL})
      + (IF Len(s) > 0 /\ s[Len(s)] # NL THEN 1 ELSE 0)

----------------------------------------------------------------------------
(* Progress record: daily_updates is the list of <<date, payload>> in      *)
(* insertion order; "Invalid" stands for a text json.load rejects.         *)
EmptyData == [valid |-> TRUE, daily_updates |-> <<>>, total_entries |-> 0]
Invalid == [valid |-> FALSE, daily_updates |-> <<>>, total_entries |-> 0]

\* json.dumps(existing_data, indent=2): one token per line, no final line break
dumps(data) ==
    Join(<<Open>>
         \o [n \in 1..Len(data.daily_updates) |->
                Entry(data.daily_updates[n][1], data.daily_updates[n][2])]
         \o <<LastModified(data.last_modified), Total(data.total_entries), Close>>)

\* json.load: the text must be exactly one document
load(text) ==
    LET t == Strip(text)
        n == Len(t)
    IN  IF n = 2 /\ t[1] = Open /\ t[2] = Close THEN EmptyData
        ELSE IF n >= 4 /\ t[1] = Open /\ t[n] = Close
                /\ t[n - 1][1] = "total_entries" /\ t[n - 2][1] = "last_modified"
                /\ \A k \in 2..(n - 3) : t[k][1] = "entry"
             THEN [valid |-> TRUE,
                   daily_updates |-> [k \in 1..(n - 4) |-> <<t[k + 1][2], t[k + 1][3]>>],
                   total_entries |-> t[n - 1][2]]
        ELSE Invalid

\* existing_data['daily_updates'][date_str] = {...}: replace in place or add last
upsert(updates, d, v) ==
    IF \E n \in 1..Len(updates) : updates[n][1] = d
    THEN [n \in 1..Len(updates) |-> IF updates[n][1] = d THEN <<d, v>> ELSE updates[n]]
    ELSE Append(updates, <<d, v>>)

\* as generate_json_content, total_entries counted before today's entry is added
generate_json_content_stale_total(dsk, d, v) ==
    LET f == dsk["progress.json"]
        loaded == IF f.exists THEN load(f.data) ELSE EmptyData
        existing_data == IF loaded.valid THEN loaded ELSE EmptyData
        updates == upsert(existing_data.daily_updates, d, v)
    IN  dumps([daily_updates |-> updates, last_modified |-> d,
               total_entries |-> Len(existing_data.daily_updates)])

generate_json_content(dsk, d, v) ==
    LET f == dsk["progress.json"]
        loaded == IF f.exists THEN load(f.data) ELSE EmptyData
        existing_data == IF loaded.valid THEN loaded ELSE EmptyData
        updates == upsert(existing_data.daily_updates, d, v)
    IN  dumps([daily_updates |-> updates, last_modified |-> d,
               total_entries |-> Len(updates)])

generate_markdown_content(num_lines) == Repeat(<<Line, NL>>, num_lines)

generate_text_content(num_lines) == Repeat(<<Line, NL>>, num_lines)

generate_generic_content == <<Line, NL, Line, NL>>

LineChoices == MIN_LINES_TO_ADD..Min(MAX_LINES_TO_ADD, MaxLines)

\* the fragments create_or_update_file may generate for file f
Contents(f, dsk, d) ==
    CASE suffix(f) = ".md" -> {generate_markdown_content(n) : n \in LineChoices}
      [] suffix(f) = ".json" -> {generate_json_content(dsk, d, v) : v \in 1..NumVals}
      [] suffix(f) = ".txt" -> {generate_text_content(n) : n \in LineChoices}
      [] OTHER -> {generate_generic_content}

\* as appended, the file opened with 'w'
appended_truncating(file, content) == File(content)

\* as appended, a line break written before the fragment whatever the prior
\* content ends with
appended_always_separating(file, content) ==
    LET existing_content == IF file.exists THEN file.data ELSE <<>>
        sep == IF Len(existing_content) > 0 THEN <<NL>> ELSE <<>>
    IN  File(existing_content \o sep \o content)

\* open(file_path, 'a'): prior content, a line break if it lacks one, the fragment
appended(file, content) ==
    LET existing_content == IF file.exists THEN file.data ELSE <<>>
        sep == IF Len(existing_content) > 0
                  /\ existing_content[Len(existing_content)] # NL
               THEN <<NL>> ELSE <<>>
    IN  File(existing_content \o sep \o content)

----------------------------------------------------------------------------
(* File selection *)
Injective(s) == \A a, b \in 1..Len(s) : a # b => s[a] # s[b]

\* as sample, positions drawn with replacement
sample_with_replacement(population, k) ==
    {[n \in 1..k |-> population[p[n]]] : p \in [1..k -> 1..Len(population)]}

\* random.sample(population, k): k distinct positions, in any order
sample(population, k) ==
    {[n \in 1..k |-> population[p[n]]] :
        p \in {q \in [1..k -> 1..Len(population)] : Injective(q)}}

\* as Selections, the count drawn from 1..MAX_FILES_PER_DAY + 1
Selections_one_more(population) ==
    UNION {sample(population, Min(k, Len(population))) : k \in 1..(MAX_FILES_PER_DAY + 1)}

Selections(population) ==
    UNION {sample(population, Min(k, Len(population))) : k \in 1..MAX_FILES_PER_DAY}

----------------------------------------------------------------------------
(* git: the working copy as the program's git commands observe it *)

\* git status --porcelain prints something
check_for_changes == pending # {}

\* position of a path in git's listing, which is in byte order of the paths
PathRank(f) ==
    CASE f = "CHANGELOG" -> 1
      [] f = "README.md" -> 2
      [] f = "daily_log.md" -> 3
      [] f = "notes.txt" -> 4
      [] f = "progress.json" -> 5

\* as first_changed, the last path of the listing
first_changed_last(changed) ==
    IF changed = {} THEN ""
    ELSE CHOOSE f \in changed : \A g \in changed : PathRank(g) <= PathRank(f)

\* git diff --cached --name-only, .strip().split('\n')[0]: the first staged
\* path, the empty string when nothing is staged
first_changed(changed) ==
    IF changed = {} THEN ""
    ELSE CHOOSE f \in changed : \A g \in changed : PathRank(f) <= PathRank(g)

----------------------------------------------------------------------------
EmptyTree == [f \in Names |-> Absent]

InitState ==
    /\ repo \in {"missing", "nogit", "ok"}
    /\ ignored \in {{}, Names}
    /\ today = 1
    /\ runs = 0
    /\ pc = "idle"
    /\ disk = EmptyTree
    /\ pending = {}
    /\ files_to_update = <<>>
    /\ i = 1
    /\ updated_files = <<>>
    /\ trace = <<>>
    /\ committed = FALSE
    /\ published = FALSE
    /\ result = FALSE
    /\ exitCode = -1
    /\ pulled = "none"
    /\ diskAtStart = EmptyTree
    /\ file_updated = ""
    /\ template = <<>>
    /\ message = <<>>
    /\ fragment = <<>>

Init == FILES_TO_UPDATE \in Configs /\ InitState

\* what a configured file may hold before the first run: nothing (absent or
\* empty), a line without its line break, a line with it
PriorFiles == {Absent, File(<<>>), File(<<Line>>), File(<<Line, NL>>)}

PriorTrees == {[f \in Names |-> p] : p \in PriorFiles}

InitPrior ==
    /\ repo \in {"missing", "nogit", "ok"}
    /\ ignored \in {{}, Names}
    /\ today = 1
    /\ runs = 0
    /\ pc = "idle"
    /\ disk \in PriorTrees
    /\ pending = {}
    /\ files_to_update = <<>>
    /\ i = 1
    /\ updated_files = <<>>
    /\ trace = <<>>
    /\ committed = FALSE
    /\ published = FALSE
    /\ result = FALSE
    /\ exitCode = -1
    /\ pulled = "none"
    /\ diskAtStart = disk
    /\ file_updated = ""
    /\ template = <<>>
    /\ message = <<>>
    /\ fragment = <<>>

InitWide == FILES_TO_UPDATE \in WideConfigs /\ InitPrior

\* The host scheduler starts the program, the first time or after the last
\* invocation has exited and perhaps a day later: main() up to the call of
\* run_daily_automation; first is the run's first step.
\* as startup, without the checks of the repository path
startup_unvalidated(first) ==
    /\ pc \in {"idle", "exited"}
    /\ runs < MaxRuns
    /\ runs' = runs + 1
    /\ today' \in (IF pc = "idle" THEN {today} ELSE {today, today + 1})
    /\ files_to_update' = <<>>
    /\ i' = 1
    /\ updated_files' = <<>>
    /\ trace' = <<>>
    /\ committed' = FALSE
    /\ published' = FALSE
    /\ result' = FALSE
    /\ pulled' = "none"
    /\ diskAtStart' = disk
    /\ file_updated' = ""
    /\ pc' = first
    /\ exitCode' = -1
    /\ UNCHANGED <<genVars, repo, FILES_TO_UPDATE, ignored, disk, pending>>

\* ensure_repo_exists and main: sys.exit(1) unless the path and its .git
\* exist; otherwise a run starts
startup(first) ==
    /\ pc \in {"idle", "exited"}
    /\ runs < MaxRuns
    /\ runs' = runs + 1
    /\ today' \in (IF pc = "idle" THEN {today} ELSE {today, today + 1})
    /\ files_to_update' = <<>>
    /\ i' = 1
    /\ updated_files' = <<>>
    /\ trace' = <<>>
    /\ committed' = FALSE
    /\ published' = FALSE
    /\ result' = FALSE
    /\ pulled' = "none"
    /\ diskAtStart' = disk
    /\ file_updated' = ""
    /\ IF repo = "ok"
       THEN pc' = first /\ exitCode' = -1
       ELSE pc' = "exited" /\ exitCode' = 1
    /\ UNCHANGED <<genVars, repo, FILES_TO_UPDATE, ignored, disk, pending>>

main == startup("select")

\* random.sample(FILES_TO_UPDATE, min(random.randint(1, MAX_FILES_PER_DAY), len))
select ==
    /\ pc = "select"
    /\ \E s \in Selections(FILES_TO_UPDATE) : files_to_update' = s
    /\ i' = 1
    /\ updated_files' = <<>>
    /\ pc' = "mutate"
    /\ UNCHANGED <<genVars, file_updated, repo, FILES_TO_UPDATE, ignored,
                   today, runs, disk, pending, trace, committed, published,
                   result, exitCode, pulled, diskAtStart>>

\* as create_or_update_file, with a failed update ending the run
create_or_update_file_aborting ==
    /\ pc = "mutate"
    /\ i <= Len(files_to_update)
    /\ LET f == files_to_update[i] IN
         \/ \E content \in Contents(f, disk, today) :
              /\ disk' = [disk EXCEPT ![f] = appended(disk[f], content)]
              /\ pending' = pending \cup ({f} \ ignored)
              /\ updated_files' = Append(updated_files, f)
              /\ pc' = pc
              /\ result' = result
         \/ /\ disk' = disk
            /\ pending' = pending
            /\ updated_files' = updated_files
            /\ pc' = "returned"
            /\ result' = FALSE
    /\ i' = i + 1
    /\ UNCHANGED <<genVars, file_updated, repo, FILES_TO_UPDATE, ignored,
                   today, runs, files_to_update, trace, committed, published,
                   exitCode, pulled, diskAtStart>>

\* one iteration of the loop over files_to_update: create_or_update_file
create_or_update_file ==
    /\ pc = "mutate"
    /\ i <= Len(files_to_update)
    /\ LET f == files_to_update[i] IN
         \/ \E content \in Contents(f, disk, today) :
              /\ disk' = [disk EXCEPT ![f] = appended(disk[f], content)]
              /\ pending' = pending \cup ({f} \ ignored)
              /\ updated_files' = Append(updated_files, f)
         \/ \* an exception of the read or of the open: caught, False returned
            /\ disk' = disk
            /\ pending' = pending
            /\ updated_files' = updated_files
    /\ i' = i + 1
    /\ UNCHANGED <<genVars, file_updated, repo, FILES_TO_UPDATE, ignored,
                   today, runs, pc, files_to_update, trace, committed,
                   published, result, exitCode, pulled, diskAtStart>>

\* as check_updated, without the test of updated_files
check_updated_unguarded ==
    /\ pc = "mutate"
    /\ i > Len(files_to_update)
    /\ pc' = "stage"
    /\ UNCHANGED <<genVars, file_updated, repo, FILES_TO_UPDATE, ignored,
                   today, runs, disk, pending, files_to_update, i,
                   updated_files, trace, committed, published, result,
                   exitCode, pulled, diskAtStart>>

\* end of the loop: if not updated_files: return False
check_updated ==
    /\ pc = "mutate"
    /\ i > Len(files_to_update)
    /\ IF updated_files = <<>>
       THEN pc' = "returned" /\ result' = FALSE
       ELSE pc' = "stage" /\ result' = result
    /\ UNCHANGED <<genVars, file_updated, repo, FILES_TO_UPDATE, ignored,
                   today, runs, disk, pending, files_to_update, i,
                   updated_files, trace, committed, published, exitCode,
                   pulled, diskAtStart>>

\* make_commit: git add . (the paths of pending become staged, or git fails)
stage ==
    /\ pc = "stage"
    /\ trace' = Append(trace, "stage")
    /\ \/ pc' = "diff" /\ result' = result
       \/ pc' = "returned" /\ result' = FALSE
    /\ UNCHANGED <<genVars, file_updated, repo, FILES_TO_UPDATE, ignored,
                   today, runs, disk, pending, files_to_update, i,
                   updated_files, committed, published, exitCode, pulled,
                   diskAtStart>>

\* as diff, with the answer of the change query not looked at
diff_unchecked ==
    /\ pc = "diff"
    /\ trace' = Append(trace, "status")
    /\ pc' = "commit"
    /\ UNCHANGED <<genVars, file_updated, repo, FILES_TO_UPDATE, ignored,
                   today, runs, disk, pending, files_to_update, i,
                   updated_files, committed, published, result, exitCode,
                   pulled, diskAtStart>>

\* make_commit: if not self.check_for_changes(): return False
diff ==
    /\ pc = "diff"
    /\ trace' = Append(trace, "status")
    /\ IF check_for_changes
       THEN pc' = "commit" /\ result' = result
       ELSE pc' = "returned" /\ result' = FALSE
    /\ UNCHANGED <<genVars, file_updated, repo, FILES_TO_UPDATE, ignored,
                   today, runs, disk, pending, files_to_update, i,
                   updated_files, committed, published, exitCode, pulled,
                   diskAtStart>>

\* as commit, with a failed commit restoring the files of the run
commit_rolling_back ==
    /\ pc = "commit"
    /\ trace' = Append(trace, "commit")
    /\ file_updated' = first_changed(pending)
    /\ \/ /\ pending' = {}
          /\ committed' = TRUE
          /\ pc' = "push"
          /\ result' = result
          /\ disk' = disk
       \/ /\ pending' = {}
          /\ committed' = committed
          /\ pc' = "returned"
          /\ result' = FALSE
          /\ disk' = diskAtStart
    /\ UNCHANGED <<genVars, repo, FILES_TO_UPDATE, ignored, today, runs,
                   files_to_update, i, updated_files, published, exitCode,
                   pulled, diskAtStart>>

\* make_commit: the first staged path goes to the message composer, then
\* git commit -m
commit ==
    /\ pc = "commit"
    /\ trace' = Append(trace, "commit")
    /\ file_updated' = first_changed(pending)
    /\ \/ /\ pending' = {}
          /\ committed' = TRUE
          /\ pc' = "push"
          /\ result' = result
       \/ /\ pending' = pending
          /\ committed' = committed
          /\ pc' = "returned"
          /\ result' = FALSE
    /\ UNCHANGED <<genVars, repo, FILES_TO_UPDATE, ignored, today, runs, disk,
                   files_to_update, i, updated_files, published, exitCode,
                   pulled, diskAtStart>>

\* as push_changes, with the outcome of the push not looked at
push_changes_unchecked ==
    /\ pc = "push"
    /\ trace' = Append(trace, "push")
    /\ \/ published' = TRUE
       \/ published' = published
    /\ result' = TRUE
    /\ pc' = "returned"
    /\ UNCHANGED <<genVars, file_updated, repo, FILES_TO_UPDATE, ignored,
                   today, runs, disk, pending, files_to_update, i,
                   updated_files, committed, exitCode, pulled, diskAtStart>>

\* as push_changes, with a failed push undoing the commit
push_changes_undoing_commit ==
    /\ pc = "push"
    /\ trace' = Append(trace, "push")
    /\ \/ published' = TRUE /\ result' = TRUE /\ committed' = committed
       \/ published' = published /\ result' = FALSE /\ committed' = FALSE
    /\ pc' = "returned"
    /\ UNCHANGED <<genVars, file_updated, repo, FILES_TO_UPDATE, ignored,
                   today, runs, disk, pending, files_to_update, i,
                   updated_files, exitCode, pulled, diskAtStart>>

\* as push_changes, with a failed push tried again
push_changes_retrying ==
    /\ pc = "push"
    /\ trace' = Append(trace, "push")
    /\ \/ published' = TRUE /\ result' = TRUE /\ pc' = "returned"
       \/ published' = published /\ result' = FALSE /\ pc' = "push"
    /\ UNCHANGED <<genVars, file_updated, repo, FILES_TO_UPDATE, ignored,
                   today, runs, disk, pending, files_to_update, i,
                   updated_files, committed, exitCode, pulled, diskAtStart>>

\* push_changes and the return of run_daily_automation
push_changes ==
    /\ pc = "push"
    /\ trace' = Append(trace, "push")
    /\ \/ published' = TRUE /\ result' = TRUE
       \/ published' = published /\ result' = FALSE
    /\ pc' = "returned"
    /\ UNCHANGED <<genVars, file_updated, repo, FILES_TO_UPDATE, ignored,
                   today, runs, disk, pending, files_to_update, i,
                   updated_files, committed, exitCode, pulled, diskAtStart>>

\* as exit, without the sys.exit(1) of the failure branch
exit_always_zero ==
    /\ pc = "returned"
    /\ exitCode' = 0
    /\ pc' = "exited"
    /\ UNCHANGED <<genVars, file_updated, repo, FILES_TO_UPDATE, ignored,
                   today, runs, disk, pending, files_to_update, i,
                   updated_files, trace, committed, published, result, pulled,
                   diskAtStart>>

\* main(): if success: print ... else: sys.exit(1)
exit ==
    /\ pc = "returned"
    /\ exitCode' = IF result THEN 0 ELSE 1
    /\ pc' = "exited"
    /\ UNCHANGED <<genVars, file_updated, repo, FILES_TO_UPDATE, ignored,
                   today, runs, disk, pending, files_to_update, i,
                   updated_files, trace, committed, published, result, pulled,
                   diskAtStart>>

Next ==
    \/ main
    \/ select
    \/ create_or_update_file
    \/ check_updated
    \/ stage
    \/ diff
    \/ commit
    \/ push_changes
    \/ exit

Spec == Init /\ [][Next]_vars

----------------------------------------------------------------------------
(* A single invocation over the longer configured lists *)
mainOnce == pc = "idle" /\ main

NextWide ==
    \/ mainOnce
    \/ select
    \/ create_or_update_file
    \/ check_updated
    \/ stage
    \/ diff
    \/ commit
    \/ push_changes
    \/ exit

SpecWide == InitWide /\ [][NextWide]_vars

----------------------------------------------------------------------------
(* The orchestrator with the pull-before-write step of the streamlined     *)
(* implementation: Idle -> Pulling -> Selecting -> ...                     *)
mainPull == startup("pull")

\* as pull, the run going on after a failed pull
pull_ignoring_failure ==
    /\ pc = "pull"
    /\ trace' = Append(trace, "pull")
    /\ \E outcome \in {"ok", "failed"} : pulled' = outcome
    /\ pc' = "select"
    /\ UNCHANGED <<genVars, file_updated, repo, FILES_TO_UPDATE, ignored,
                   today, runs, disk, pending, files_to_update, i,
                   updated_files, committed, published, result, exitCode,
                   diskAtStart>>

\* Pulling: on failure Done(failure), no local mutation is attempted
pull ==
    /\ pc = "pull"
    /\ trace' = Append(trace, "pull")
    /\ \/ pulled' = "ok" /\ pc' = "select" /\ result' = result
       \/ pulled' = "failed" /\ pc' = "returned" /\ result' = FALSE
    /\ UNCHANGED <<genVars, file_updated, repo, FILES_TO_UPDATE, ignored,
                   today, runs, disk, pending, files_to_update, i,
                   updated_files, committed, published, exitCode,
                   diskAtStart>>

NextPull ==
    \/ mainPull
    \/ pull
    \/ select
    \/ create_or_update_file
    \/ check_updated
    \/ stage
    \/ diff
    \/ commit
    \/ push_changes
    \/ exit

SpecPull == Init /\ [][NextPull]_vars

----------------------------------------------------------------------------
(* The generators on their own: a commit message is a sequence of tokens,  *)
(* <<"lit", text>> for literal text, <<"ph", name>> for a placeholder left *)
(* in the text and <<"val", text>> for a substituted value; a markdown      *)
(* fragment is the sequence of the line types drawn for its lines.         *)
Lit(text) == <<"lit", text>>
Ph(name) == <<"ph", name>>
Val(text) == <<"val", text>>

COMMIT_MESSAGES == <<
    <<Lit("Daily update: "), Ph("{date}")>>,
    <<Lit("Progress log for "), Ph("{date}")>>,
    <<Lit("Update: "), Ph("{activity}"), Lit(" - "), Ph("{date}")>>,
    <<Lit("Daily commit: "), Ph("{random_emoji}"), Lit(" "), Ph("{date}")>>,
    <<Lit("Log entry: "), Ph("{timestamp}")>>,
    <<Lit("Daily sync: "), Ph("{file_updated}")>>,
    <<Lit("Update "), Ph("{file_updated}"), Lit(": "), Ph("{random_text}")>>,
    <<Lit("Daily progress: "), Ph("{activity}")>>,
    <<Lit("Commit: "), Ph("{random_emoji}"), Lit(" "), Ph("{activity}")>>,
    <<Lit("Update: "), Ph("{random_text}"), Lit(" - "), Ph("{date}")>> >>

ACTIVITIES == {"code review", "bug fixes", "feature development",
               "documentation", "testing", "refactoring", "optimization",
               "research", "planning", "debugging", "cleanup", "maintenance",
               "learning", "experimentation"}

RANDOM_TEXTS == {"Quick update", "Minor changes", "Small improvement",
                 "Tiny fix", "Quick note", "Brief update", "Small addition",
                 "Minor tweak", "Quick edit", "Small change", "Brief note",
                 "Minor update"}

EMOJIS == {"rocket", "sparkles", "memo", "wrench", "bulb", "dart", "zap",
           "fire", "muscle", "tada", "books", "tools"}

\* as replacements, without the entry of {random_text}
replacements_without_random_text(file, activity, emoji, text) ==
    << <<"{date}", "%Y-%m-%d">>,
       <<"{timestamp}", "%Y-%m-%d %H:%M:%S">>,
       <<"{activity}", activity>>,
       <<"{file_updated}", file>>,
       <<"{random_emoji}", emoji>> >>

\* the replacements dict, in its insertion order
replacements(file, activity, emoji, text) ==
    << <<"{date}", "%Y-%m-%d">>,
       <<"{timestamp}", "%Y-%m-%d %H:%M:%S">>,
       <<"{activity}", activity>>,
       <<"{file_updated}", file>>,
       <<"{random_emoji}", emoji>>,
       <<"{random_text}", text>> >>

\* message.replace(placeholder, value)
replace(msg, placeholder, value) ==
    [k \in 1..Len(msg) |->
        IF msg[k] = Ph(placeholder) THEN Val(value) ELSE msg[k]]

\* for placeholder, value in replacements.items(): message = message.replace
RECURSIVE substitute(_, _)
substitute(msg, reps) ==
    IF reps = <<>> THEN msg
    ELSE substitute(replace(msg, reps[1][1], reps[1][2]), Tail(reps))

LINE_TYPES == {"header", "text", "list", "emoji"}

\* as NumLines, with an empty fragment allowed
NumLines_from_zero == 0..MAX_LINES_TO_ADD

\* random.randint(MIN_LINES_TO_ADD, MAX_LINES_TO_ADD)
NumLines == MIN_LINES_TO_ADD..MAX_LINES_TO_ADD

InitGenerators ==
    /\ repo = "ok"
    /\ FILES_TO_UPDATE = Candidates
    /\ ignored = {}
    /\ today = 1
    /\ runs = 0
    /\ pc = "generate"
    /\ disk = EmptyTree
    /\ pending = {}
    /\ files_to_update = <<>>
    /\ i = 1
    /\ updated_files = <<>>
    /\ trace = <<>>
    /\ committed = FALSE
    /\ published = FALSE
    /\ result = FALSE
    /\ exitCode = -1
    /\ pulled = "none"
    /\ diskAtStart = EmptyTree
    /\ file_updated \in Names
    /\ template = <<>>
    /\ message = <<>>
    /\ fragment = <<>>

\* get_random_commit_message(file_updated)
get_random_commit_message ==
    /\ pc = "generate"
    /\ \E t \in 1..Len(COMMIT_MESSAGES), activity \in ACTIVITIES,
          emoji \in EMOJIS, text \in RANDOM_TEXTS :
          /\ template' = COMMIT_MESSAGES[t]
          /\ message' = substitute(COMMIT_MESSAGES[t],
                            replacements(file_updated, activity, emoji, text))
    /\ pc' = "composed"
    /\ UNCHANGED <<file_updated, fragment, repo, FILES_TO_UPDATE, ignored,
                   today, runs, disk, pending, files_to_update, i,
                   updated_files, trace, committed, published, result,
                   exitCode, pulled, diskAtStart>>

\* generate_markdown_content: the line type of each of num_lines lines is
\* an independent random.choice
draw_markdown_lines ==
    /\ pc = "generate"
    /\ \E num_lines \in NumLines :
          \E types \in [1..num_lines -> LINE_TYPES] : fragment' = types
    /\ pc' = "generated"
    /\ UNCHANGED <<file_updated, template, message, repo, FILES_TO_UPDATE,
                   ignored, today, runs, disk, pending, files_to_update, i,
                   updated_files, trace, committed, published, result,
                   exitCode, pulled, diskAtStart>>

NextGenerators ==
    \/ get_random_commit_message
    \/ draw_markdown_lines

SpecGenerators == InitGenerators /\ [][NextGenerators]_vars

TypeOK ==
    /\ pc \in {"idle", "pull", "select", "mutate", "stage", "diff", "commit",
               "push", "returned", "exited", "generate", "composed",
               "generated"}
    /\ file_updated \in Names \cup {""}
    /\ exitCode \in {-1, 0, 1}
    /\ runs \in 0..MaxRuns
    /\ today \in 1..MaxRuns
    /\ pending \subseteq Names \ ignored

----------------------------------------------------------------------------
(* Properties *)
Range(s) == {s[n] : n \in 1..Len(s)}

InRun == pc \in {"mutate", "stage", "diff", "commit", "push", "returned"}

\* the step is a successful create_or_update_file of file f
Updates(f) ==
    /\ pc = "mutate"
    /\ i <= Len(files_to_update)
    /\ files_to_update[i] = f
    /\ updated_files' = Append(updated_files, f)

\* the text is one progress record with exactly one entry for date d and a
\* total_entries equal to the number of its entries
OneEntryFor(text, d) ==
    LET r == load(text) IN
        /\ r.valid
        /\ Cardinality({n \in 1..Len(r.daily_updates) : r.daily_updates[n][1] = d}) = 1
        /\ r.total_entries = Len(r.daily_updates)

\* C1: once the pull step of a run has failed, the run is over with a failure
\* result, every file of the working tree is as it was when the run started,
\* no commit was created, and pull is the only VCS operation of the run.
C1_FailedPullLeavesRepositoryUntouched ==
    pulled = "failed" =>
        /\ pc \in {"returned", "exited"}
        /\ result = FALSE
        /\ exitCode \in {-1, 1}
        /\ disk = diskAtStart
        /\ committed = FALSE
        /\ published = FALSE
        /\ updated_files = <<>>
        /\ trace = <<"pull">>

C1_Witness ==
    /\ pulled = "failed"
    /\ pc = "exited"
    /\ exitCode = 1
    /\ FILES_TO_UPDATE # <<>>

\* C2: when the loop over the selected files ends with no file updated, the
\* run returns failure and stage, commit and push are never invoked.
C2_NoUpdateNoVcsWrite ==
    /\ pc \in {"stage", "diff", "commit", "push"} => updated_files # <<>>
    /\ (pc \in {"returned", "exited"} /\ updated_files = <<>>) =>
          /\ result = FALSE
          /\ exitCode \in {-1, 1}
          /\ \A n \in 1..Len(trace) : trace[n] \notin {"stage", "status", "commit", "push"}

C2_Witness ==
    /\ pc = "exited"
    /\ Len(files_to_update) >= 2
    /\ updated_files = <<>>
    /\ exitCode = 1

\* C3: with an empty list of target files the selection is empty, no file is
\* written, no VCS operation is invoked and the run does not succeed.
C3_EmptyConfigurationIsInert ==
    FILES_TO_UPDATE = <<>> =>
        /\ files_to_update = <<>>
        /\ updated_files = <<>>
        /\ disk = EmptyTree
        /\ trace = <<>>
        /\ pending = {}
        /\ committed = FALSE
        /\ published = FALSE
        /\ result = FALSE
        /\ exitCode \in {-1, 1}
        /\ pc \notin {"stage", "diff", "commit", "push"}

C3_Witness ==
    /\ FILES_TO_UPDATE = <<>>
    /\ repo = "ok"
    /\ runs = 2
    /\ pc = "exited"
    /\ exitCode = 1

\* C4: the selection of a run holds no file twice and at most
\* min(MAX_FILES_PER_DAY, number of configured files) files.
C4_SelectionDistinctAndBounded ==
    /\ Injective(files_to_update)
    /\ Len(files_to_update) <= Min(MAX_FILES_PER_DAY, Len(FILES_TO_UPDATE))
    /\ Range(files_to_update) \subseteq Range(FILES_TO_UPDATE)

C4_Witness ==
    /\ pc = "mutate"
    /\ Len(FILES_TO_UPDATE) > MAX_FILES_PER_DAY
    /\ Len(files_to_update) = MAX_FILES_PER_DAY

\* C5: an update of the JSON file that already holds a valid record with an
\* entry for today leaves in the file a record with exactly one entry for
\* today whose total_entries is the number of its entries.
C5_TodayEntryOverwritten ==
    [][(/\ Updates("progress.json")
        /\ disk["progress.json"].exists
        /\ OneEntryFor(disk["progress.json"].data, today))
       => OneEntryFor(disk'["progress.json"].data, today)]_vars

\* C6: an update of the JSON file that did not exist leaves a file that is
\* one valid record with today's entry as its only entry and total_entries 1.
C6_FirstUpdateCreatesOneEntry ==
    [][(Updates("progress.json") /\ ~disk["progress.json"].exists)
       => LET r == load(disk'["progress.json"].data) IN
            /\ disk'["progress.json"].exists
            /\ r.valid
            /\ Len(r.daily_updates) = 1
            /\ r.daily_updates[1][1] = today
            /\ r.total_entries = 1]_vars

C6_Witness ==
    /\ ~diskAtStart["progress.json"].exists
    /\ "progress.json" \in Range(updated_files)
    /\ disk["progress.json"].exists
    /\ pc = "exited"

\* C7: after a successful update of the JSON file its whole content is the
\* freshly generated document.
C7_JsonFullReplace ==
    [][Updates("progress.json")
       => \E v \in 1..NumVals :
            disk'["progress.json"].data = generate_json_content(disk, today, v)]_vars

\* C8: a successful update of a file of an append category keeps the previous
\* content as a prefix of the new content and strictly increases the file's
\* line count.
C8_AppendMonotonic ==
    [][\A f \in Names :
          (suffix(f) # ".json" /\ Updates(f)) =>
              /\ IsPrefix(disk[f].data, disk'[f].data)
              /\ LineCount(disk'[f].data) > LineCount(disk[f].data)]_vars

\* a file of an append category updated in the first run and again in the second
C8_Witness ==
    /\ runs = 2
    /\ \E f \in Range(updated_files) :
          /\ suffix(f) # ".json"
          /\ LineCount(diskAtStart[f].data) > 0
          /\ LineCount(disk[f].data) > LineCount(diskAtStart[f].data)

\* C9 as stated: with a non-empty configured list the selection of a run holds
\* 1 or 2 distinct files.
C9_SelectionOneOrTwo ==
    (InRun /\ FILES_TO_UPDATE # <<>>) =>
        /\ Len(files_to_update) \in 1..2
        /\ Injective(files_to_update)

\* C9 amended: with a non-empty configured list the selection of a run holds
\* between 1 and 3 distinct files.
C9_SelectionOneToThree ==
    (InRun /\ FILES_TO_UPDATE # <<>>) =>
        /\ Len(files_to_update) \in 1..3
        /\ Injective(files_to_update)

C9_Witness ==
    /\ InRun
    /\ Len(FILES_TO_UPDATE) > 3
    /\ Len(files_to_update) = 3

\* C10: the process exits with status 0 exactly when the run updated files,
\* created a commit and pushed it; every other exit is non-zero.
C10_ExitStatus ==
    /\ pc # "exited" => exitCode = -1
    /\ pc = "exited" =>
          /\ exitCode \in {0, 1}
          /\ exitCode = 0 <=>
                /\ updated_files # <<>>
                /\ trace = <<"stage", "status", "commit", "push">>
                /\ committed
                /\ published

C10_Witness ==
    /\ pc = "exited"
    /\ exitCode = 0
    /\ runs = 2

\* a run that found nothing to commit
C10_NoOp ==
    /\ pc = "exited"
    /\ trace = <<"stage", "status">>
    /\ exitCode = 1
\* C11: whatever template of the catalog is drawn and whatever configured
\* file name is passed, the composed message is the template with each
\* placeholder replaced by a value and its literal text kept: no placeholder
\* remains in it.
C11_AllPlaceholdersSubstituted ==
    pc = "composed" =>
        /\ template \in Range(COMMIT_MESSAGES)
        /\ Len(message) = Len(template)
        /\ \A k \in 1..Len(message) :
              /\ message[k][1] # "ph"
              /\ template[k][1] = "lit" => message[k] = template[k]
              /\ template[k][1] = "ph" => message[k][1] = "val"
              /\ template[k] = Ph("{file_updated}")
                    => message[k] = Val(file_updated)

C11_Witness ==
    /\ pc = "composed"
    /\ template = COMMIT_MESSAGES[7]
    /\ file_updated = "notes.txt"
    /\ message = <<Lit("Update "), Val("notes.txt"), Lit(": "),
                   Val("Tiny fix")>>

\* the run is over: run_daily_automation has returned, or the process ended
Ended == pc \in {"returned", "exited"}

\* C12: a run whose change query, after staging, reports nothing pending
\* ends without success, with neither a commit nor a push invoked; a commit
\* is reached only with something pending.
C12_NoPendingChangeIsNoOp ==
    /\ pc = "commit" => pending # {}
    /\ (Ended /\ Len(trace) >= 2 /\ trace[2] = "status" /\ ~committed
              /\ pending = {})
          => /\ trace = <<"stage", "status">>
             /\ ~result
             /\ ~published
             /\ exitCode # 0

C12_Witness ==
    /\ pc = "exited"
    /\ trace = <<"stage", "status">>
    /\ updated_files # <<>>
    /\ pending = {}
    /\ exitCode = 1

\* C13: a run whose commit invocation failed ends in failure without a push,
\* and every file it updated still holds what the run wrote (longer than at
\* the start of the run), still pending.
C13_FailedCommitKeepsMutations ==
    (Ended /\ "commit" \in Range(trace) /\ ~committed)
       => /\ trace = <<"stage", "status", "commit">>
          /\ ~result
          /\ ~published
          /\ exitCode # 0
          /\ pending # {}
          /\ \A f \in Range(updated_files) :
                /\ disk[f].exists
                /\ disk[f] # diskAtStart[f]

C13_Witness ==
    /\ pc = "exited"
    /\ trace = <<"stage", "status", "commit">>
    /\ ~committed
    /\ exitCode = 1
    /\ \E f \in Range(updated_files) : LineCount(disk[f].data) > 0

\* C14: a run whose push failed ends in failure with its commit still made
\* (nothing pending again, nothing undone) and with the one push of the run.
C14_FailedPushKeepsCommit ==
    (Ended /\ "push" \in Range(trace) /\ ~published)
       => /\ trace = <<"stage", "status", "commit", "push">>
          /\ ~result
          /\ exitCode # 0
          /\ committed
          /\ pending = {}
          /\ \A f \in Range(updated_files) : disk[f] # diskAtStart[f]

C14_Witness ==
    /\ pc = "exited"
    /\ trace = <<"stage", "status", "commit", "push">>
    /\ committed
    /\ ~published
    /\ exitCode = 1

\* the selected files, in selection order, that the run has changed on disk
Succeeded ==
    SelectSeq(SubSeq(files_to_update, 1, i - 1),
              LAMBDA f : disk[f] # diskAtStart[f])

\* C15: the loop goes through every selected file whether or not an update
\* failed before, and the updated files are the selected files whose update
\* succeeded, in selection order.
C15_FailedFileDoesNotAbort ==
    /\ i \in 1..(Len(files_to_update) + 1)
    /\ pc \notin {"idle", "select", "mutate"} => i = Len(files_to_update) + 1
    /\ updated_files = Succeeded

C15_Witness ==
    /\ pc = "exited"
    /\ Len(files_to_update) = 2
    /\ updated_files = <<files_to_update[2]>>
    /\ disk[files_to_update[1]] = diskAtStart[files_to_update[1]]
    /\ disk[files_to_update[2]] # diskAtStart[files_to_update[2]]

\* C16: the git steps of a run are a prefix of stage, change query, commit,
\* push (each at most once, in that order); none happens before the loop over
\* the selected files is over with some file updated; the commit comes only
\* with pending changes found and the push only after a commit was made.
C16_VcsStepOrder ==
    /\ IsPrefix(trace, <<"stage", "status", "commit", "push">>)
    /\ (trace # <<>> \/ pc \in {"stage", "diff", "commit", "push"})
          => i = Len(files_to_update) + 1 /\ updated_files # <<>>
    /\ pc = "diff" => trace = <<"stage">>
    /\ pc = "commit" => trace = <<"stage", "status">> /\ pending # {}
    /\ (pc = "push" \/ "push" \in Range(trace)) => committed
    /\ committed => SubSeq(trace, 1, 3) = <<"stage", "status", "commit">>

C16_Witness ==
    /\ pc = "exited"
    /\ trace = <<"stage", "status", "commit", "push">>
    /\ published
    /\ exitCode = 0

\* C19: with the repository path missing or without a .git the program
\* ends at startup with a non-zero exit status: nothing is selected, no file
\* is written and no git step is taken.
C19_BadRepositoryStopsAtStartup ==
    repo # "ok" =>
        /\ pc \in {"idle", "exited"}
        /\ pc = "exited" => exitCode = 1
        /\ files_to_update = <<>>
        /\ updated_files = <<>>
        /\ disk = EmptyTree
        /\ pending = {}
        /\ trace = <<>>
        /\ ~committed
        /\ ~published

C19_Witness ==
    /\ repo = "nogit"
    /\ FILES_TO_UPDATE # <<>>
    /\ pc = "exited"
    /\ runs = MaxRuns
    /\ exitCode = 1
    /\ disk = EmptyTree

\* C17 as stated: the file name handed to the message composer is the first
\* of the run's updated files.
C17_FirstUpdatedFileNamed ==
    "commit" \in Range(trace) => file_updated = updated_files[1]

\* C17: the file name handed to the message composer is the first path of
\* git's listing of the staged changes: a pending path that no pending path
\* precedes in git's path order, whether this run updated it or not.
C17_FirstStagedPathNamed ==
    [][pc = "commit" =>
          /\ file_updated' \in pending
          /\ \A g \in pending : PathRank(file_updated') <= PathRank(g)]_vars

C17_Witness ==
    /\ "commit" \in Range(trace)
    /\ Len(updated_files) = 1
    /\ file_updated \in Names \ Range(updated_files)
    /\ PathRank(file_updated) < PathRank(updated_files[1])

\* C18 as stated: a markdown fragment holds between 1 and MAX_LINES_TO_ADD
\* lines and no line type is drawn twice for it.
C18_LinesWithoutRepetition ==
    pc = "generated" =>
        /\ Len(fragment) \in MIN_LINES_TO_ADD..MAX_LINES_TO_ADD
        /\ Injective(fragment)

\* C18: a markdown fragment holds between 1 and MAX_LINES_TO_ADD lines, each
\* of one of the four line types; a line type may come more than once.
C18_LinesOfTheCatalog ==
    pc = "generated" =>
        /\ Len(fragment) >= MIN_LINES_TO_ADD
        /\ Len(fragment) <= MAX_LINES_TO_ADD
        /\ \A k \in 1..Len(fragment) :
              fragment[k] \in {"header", "text", "list", "emoji"}

C18_Witness ==
    /\ pc = "generated"
    /\ fragment = <<"list", "header", "list", "list", "emoji">>

\* C20: an update of a file of an append category keeps the prior content
\* and ends with the fragment; between them it writes one line break when
\* the prior content is not empty and does not end with one, and nothing
\* otherwise; the fragment starts the file or follows a line break.
C20_SeparatingLineBreak ==
    [][\A f \in Names :
          (suffix(f) # ".json" /\ Updates(f)) =>
              LET old == IF disk[f].exists THEN disk[f].data ELSE <<>>
                  new == disk'[f].data
                  lacks == Len(old) > 0 /\ old[Len(old)] # NL
              IN  \E content \in Contents(f, disk, today) :
                     LET start == Len(new) - Len(content) IN
                        /\ disk'[f].exists
                        /\ IsPrefix(old, new)
                        /\ start >= Len(old)
                        /\ SubSeq(new, start + 1, Len(new)) = content
                        /\ start - Len(old) = (IF lacks THEN 1 ELSE 0)
                        /\ start = 0 \/ new[start] = NL]_vars

\* a file of an append category that held a line without its line break
\* and was updated: the line, one line break, the fragment
C20_Witness ==
    \E f \in Range(updated_files) :
        /\ suffix(f) = ".md"
        /\ diskAtStart[f] = File(<<Line>>)
        /\ disk[f] = File(<<Line, NL, Line, NL>>)

\* the dates of the entries of a record, in the record's order
Dates(r) == [n \in 1..Len(r.daily_updates) |-> r.daily_updates[n][1]]

\* C21: an update of the JSON file that is absent, or holds one valid record
\* of earlier updates with no entry for today, leaves in the file one valid
\* record with the entries of the earlier dates kept, one entry for today
\* added, and total_entries equal to the number of entries.
C21_OneEntryPerUpdatedDate ==
    [][(/\ Updates("progress.json")
        /\ \/ ~disk["progress.json"].exists
           \/ LET r == load(disk["progress.json"].data) IN
                 /\ r.valid
                 /\ r.total_entries = Len(r.daily_updates)
                 /\ \A n \in 1..Len(r.daily_updates) :
                       r.daily_updates[n][1] # today)
       => LET old == IF disk["progress.json"].exists
                     THEN load(disk["progress.json"].data) ELSE EmptyData
              new == load(disk'["progress.json"].data)
          IN  /\ new.valid
              /\ Dates(new) = Append(Dates(old), today)
              /\ Injective(Dates(new))
              /\ new.total_entries = Len(new.daily_updates)]_vars

\* every step of the run succeeded: some selected file was updated, the
\* staging and the change query led to a commit that was made, and the push
\* went through
AllStepsSucceeded ==
    /\ updated_files # <<>>
    /\ trace = <<"stage", "status", "commit", "push">>
    /\ committed
    /\ published

\* C22: the result of a run is success only once the run is over with every
\* step succeeded; a run over in any other way has a failure result.
C22_SuccessOnlyAfterAllSteps ==
    /\ result => Ended /\ AllStepsSucceeded
    /\ Ended => (result <=> AllStepsSucceeded)

C22_Witness ==
    /\ pc = "returned"
    /\ result
    /\ Len(updated_files) = 2
    /\ Len(trace) = 4
    /\ pending = {}

====
